---- MODULE Spec2Model ----
(***************************************************************************)
(* Model of the order checkout of insinuante-api (server.ts).              *)
(*                                                                         *)
(* POST /orders runs one interactive database transaction: it inserts the  *)
(* order with its nested line items, then issues one UPDATE per line item  *)
(* that decrements the product's stock and increments its sold counter,    *)
(* and commits.  Every await of the handler is one step of the model, so   *)
(* that concurrent requests interleave between the statements of their     *)
(* transactions.  The store is PostgreSQL at its default isolation level:  *)
(* uncommitted writes are invisible to other transactions, an UPDATE takes *)
(* the row's lock until the transaction ends, and a transaction that waits *)
(* in a lock cycle is aborted by the deadlock detector.                    *)
(***************************************************************************)
EXTENDS Integers, Sequences, FiniteSets, TLC

\* ---------------------------------------------------------------- bounds
NumCalls == 2      \* request slots (concurrent POST /orders calls)
MaxItems == 2      \* longest line-item list of a single request
MaxQty == 1        \* largest quantity (of either sign) of a line item
InitStock == 2     \* stock of every product of the seeded catalogue
MaxOps == 2        \* requests to the single-statement routes in one behaviour

\* ------------------------------------------------------------- constants
Created == 201
ServerError == 500
BadRequest == 400
Ok == 200
NoContent == 204

Calls == 1..NumCalls
ProductIds == {"p1", "p2"}
MissingId == "p9"
ItemIds == ProductIds \cup {MissingId}
Quantities == (0 - MaxQty)..MaxQty
Names == {"A", "B"}
Prices == {5, 10}
Images == {"u"}
InitialStatus == "A Enviar"
StatusError == "Erro ao atualizar status do pedido"
ProductUpdateError == "Erro ao atualizar o produto no banco de dados."
ProductDeleteError == "Erro ao excluir o produto. Verifique se ele existe."
AddressDeleteError == "Erro ao remover endereço."
FavoriteError == "Erro ao processar favorito"
AddressCreateError == "Erro ao cadastrar endereço."
AddressUpdateError == "Erro ao atualizar endereço."
RegisterError == "Dados do usuário (nome, email) são obrigatórios."
Placeholder == "https://placehold.co/400"
\* The order statuses the routes of the server name.
Statuses == {"A Pagar", "A Enviar", "Enviando", "Concluído", "Cancelado"}
CheckoutError == "Erro ao processar pagamento ou falta de estoque."

\* One element of req.body.items, as the storefront sends it for product p.
Item(p, q) == [id |-> p, name |-> "B", quantity |-> q, price |-> 10, image |-> "u"]

\* Every element of req.body.items a client can send: any product id, any
\* integer quantity, any snapshot of name and price.
AnyItems ==
  [id : ItemIds, name : Names, quantity : Quantities, price : Prices, image : Images]

\* The lists of at most n elements of S.
SeqsUpTo(S, n) == UNION {[1..k -> S] : k \in 0..n}

\* req.body of POST /orders with the given items.
Body(items) ==
  [customerId |-> "u1", total |-> 30, paymentMethod |-> "card", addressId |-> "a1",
   items |-> items]
\* req.body without `items`.
BodyNoItems ==
  [customerId |-> "u1", total |-> 30, paymentMethod |-> "card", addressId |-> "a1"]

\* req.body carrying a status of the caller's choosing next to the fields the
\* handler reads.
BodyWithStatus(items, st) ==
  [customerId |-> "u1", total |-> 30, paymentMethod |-> "card", addressId |-> "a1",
   items |-> items, status |-> st]

\* The requests of the concurrent checkouts: no items, an empty list, one
\* product, the same product twice, two products in either order, and a
\* missing product after a valid one, and a body that brings its own status.
Requests ==
  { BodyNoItems,
    BodyWithStatus(<<Item("p2", 1)>>, "Cancelado"),
    Body(<<>>),
    Body(<<Item("p1", 1)>>),
    Body(<<Item("p1", 2)>>),
    Body(<<Item("p2", 1)>>),
    Body(<<Item("p1", 1), Item("p1", 1)>>),
    Body(<<Item("p1", 1), Item("p2", 1)>>),
    Body(<<Item("p2", 1), Item("p1", 1)>>),
    Body(<<Item("p1", 1), Item(MissingId, 1)>>) }

\* Every request a client can send, up to MaxItems items.
AnyRequests == {Body(items) : items \in SeqsUpTo(AnyItems, MaxItems)} \cup {BodyNoItems}

\* req.body as express.json() of Express 4 leaves it when the request has no
\* JSON body: the empty object.
EmptyBody == [f \in {} |-> 0]
\* What the default error handler of Express 5 sends for an error the route
\* did not catch: status 500 and a page, not a JSON object.
UncaughtErrorPage == [status |-> ServerError, page |-> "TypeError"]

\* The requests of the checkout that runs next to the other routes.
ApiRequests ==
  { Body(<<Item("p1", 1)>>),
    Body(<<Item("p1", 1), Item("p2", 1)>>) }

\* req.body of PUT /products/:id: price and stock are JSON integers, on which
\* parseFloat and parseInt return the number itself.
PutRequests ==
  { [name |-> "D", price |-> 7, stock |-> InitStock, images |-> <<"new">>],
    [name |-> "A", price |-> 5, stock |-> 0, images |-> <<>>] }

UserIds == {"u1", "u9"}


\* req.body of POST /cart: the buyer, a product and a quantity to add.
CartRequests == [userId : {"u1"}, productId : ProductIds, quantity : 1..MaxQty]
AddressIds == {"a1", "a9"}

NoBody == [none |-> TRUE]
\* A slot in which no request of a two-statement route runs.
Idle == [at |-> "idle"]
NoRow == [none |-> TRUE]
NoResponse == [status |-> 0]
NoPending == [stock |-> 0, sold |-> 0]

VARIABLES
  products,    \* committed Product rows: id -> [name, price, image, stock, sold]
  orders,      \* committed Order rows
  orderItems,  \* committed OrderItem rows
  nextId,      \* source of generated order ids
  pc,          \* per call: "idle", "create", "update", "done"
  body,        \* per call: req.body
  idx,         \* per call: position of the stock loop in items
  txOrder,     \* per call: order row inserted by the open transaction
  txItems,     \* per call: line-item rows inserted by the open transaction
  rowLock,     \* per product: the calls whose transaction holds the row lock
  pending,     \* per product: uncommitted [stock, sold] written by the lock holder
  response,    \* per call: the HTTP response sent
  cart,        \* committed CartItem rows
  favorites,   \* committed Favorite rows
  addresses,   \* committed Address rows
  users,       \* committed User rows: id -> [name]
  shops,       \* committed Shop rows: id -> [name]
  replies,     \* the responses of the single-statement routes, in order
  reqs,        \* per slot: the request of a two-statement route and its position
  nextRow      \* source of the generated ids of cart, favorite and address rows

vars == <<products, orders, orderItems, nextId, pc, body, idx, txOrder, txItems,
          rowLock, pending, response, cart, favorites, addresses, users, shops,
          replies, reqs, nextRow>>

\* What the checkout never touches.
apart == <<cart, favorites, addresses, users, shops, replies, reqs, nextRow>>

\* The catalogue the store holds when the server starts.
Catalogue ==
  [p \in ProductIds |->
     [name |-> IF p = "p1" THEN "A" ELSE "C", price |-> 5, image |-> "img",
      stock |-> InitStock, sold |-> 0]]

Init ==
  /\ products = Catalogue
  /\ orders = {}
  /\ orderItems = {}
  /\ nextId = 1
  /\ pc = [c \in Calls |-> "idle"]
  /\ body = [c \in Calls |-> NoBody]
  /\ idx = [c \in Calls |-> 0]
  /\ txOrder = [c \in Calls |-> NoRow]
  /\ txItems = [c \in Calls |-> {}]
  /\ rowLock = [p \in ProductIds |-> {}]
  /\ pending = [p \in ProductIds |-> NoPending]
  /\ response = [c \in Calls |-> NoResponse]
  /\ cart = {[id |-> "k1", userId |-> "u1", productId |-> "p1", quantity |-> 1]}
  /\ favorites = {[id |-> "f1", userId |-> "u1", productId |-> "p1"]}
  /\ addresses = {[id |-> "a1", userId |-> "u1", isPrimary |-> TRUE]}
  /\ users = [u \in {"u1"} |-> [name |-> "Ana"]]
  /\ shops = [h \in {"s1"} |-> [name |-> "Loja"]]
  /\ replies = <<>>
  /\ reqs = [r \in Calls |-> Idle]
  /\ nextRow = 2

\* ------------------------------------------------------------- helpers

\* A bug of the mapping: the snapshot is read from the catalogue.
ItemRowsFromCatalogue(items, orderId) ==
  {[orderId |-> orderId, seq |-> k, productId |-> items[k].id,
    name |-> IF items[k].id \in DOMAIN products THEN products[items[k].id].name
             ELSE items[k].name,
    quantity |-> items[k].quantity,
    price |-> IF items[k].id \in DOMAIN products THEN products[items[k].id].price
              ELSE items[k].price,
    image |-> items[k].image]
     : k \in 1..Len(items)}

\* items.map(item => ({productId: item.id, name, quantity, price, image}))
\* as the nested create of the order: one OrderItem row per input item, in
\* the order of the input (seq is the row's position of creation).
ItemRows(items, orderId) ==
  {[orderId |-> orderId, seq |-> k, productId |-> items[k].id, name |-> items[k].name,
    quantity |-> items[k].quantity, price |-> items[k].price, image |-> items[k].image]
     : k \in 1..Len(items)}

\* A bug of the insert: the body is spread into the row, status included.
OrderRowTrustsBody(b, orderId) ==
  [id |-> orderId, customerId |-> b.customerId, total |-> b.total,
   paymentMethod |-> b.paymentMethod, addressId |-> b.addressId,
   status |-> IF "status" \in DOMAIN b THEN b.status ELSE InitialStatus]

\* The Order row of tx.order.create.
OrderRow(b, orderId) ==
  [id |-> orderId, customerId |-> b.customerId, total |-> b.total,
   paymentMethod |-> b.paymentMethod, addressId |-> b.addressId,
   status |-> InitialStatus]

\* tx.order.create has no include: it resolves to the scalar fields of the
\* order, without the nested rows.
CreateResult(row, rows) == row

\* A bug of the update: one unit per line item, whatever its quantity.
DecrementedByOne(row, q) == [stock |-> row.stock - 1, sold |-> row.sold + 1]

\* stock: {decrement: q}, sold: {increment: q}
Decremented(row, q) == [stock |-> row.stock - q, sold |-> row.sold + q]

\* The locks of c released, the uncommitted row versions under them dropped.
Released(c) == [p \in ProductIds |-> rowLock[p] \ {c}]
Dropped(c) == [p \in ProductIds |-> IF c \in rowLock[p] THEN NoPending ELSE pending[p]]

\* The product rows with the versions written by c installed.
Installed(c) ==
  [p \in DOMAIN products |->
     IF c \in rowLock[p]
     THEN [products[p] EXCEPT !.stock = pending[p].stock, !.sold = pending[p].sold]
     ELSE products[p]]

\* A bug of the handler: the statements run outside a transaction, so that
\* what was written before the failure stays.
RollbackKeepsWrites(c) ==
  /\ orders' = IF txOrder[c] = NoRow THEN orders ELSE orders \cup {txOrder[c]}
  /\ orderItems' = orderItems \cup txItems[c]
  /\ products' = Installed(c)
  /\ txOrder' = [txOrder EXCEPT ![c] = NoRow]
  /\ txItems' = [txItems EXCEPT ![c] = {}]
  /\ rowLock' = Released(c)
  /\ pending' = Dropped(c)
  /\ response' = [response EXCEPT ![c] = [status |-> ServerError, error |-> CheckoutError]]
  /\ pc' = [pc EXCEPT ![c] = "done"]
  /\ UNCHANGED <<body, idx>>
  /\ UNCHANGED apart

\* The callback throws: ROLLBACK discards the transaction's inserts and row
\* versions and releases its locks; the catch block answers
\* res.status(500).json({error: ...}).
Rollback(c) ==
  /\ txOrder' = [txOrder EXCEPT ![c] = NoRow]
  /\ txItems' = [txItems EXCEPT ![c] = {}]
  /\ rowLock' = Released(c)
  /\ pending' = Dropped(c)
  /\ response' = [response EXCEPT ![c] = [status |-> ServerError, error |-> CheckoutError]]
  /\ pc' = [pc EXCEPT ![c] = "done"]
  /\ UNCHANGED <<products, orders, orderItems, body, idx>>
  /\ UNCHANGED apart

\* ------------------------------------------------------------- actions

\* app.post('/orders'): a request with a body of set S arrives, the body is
\* destructured and prisma.$transaction opens the transaction.
PlaceOrder(c, S) ==
  /\ pc[c] = "idle"
  /\ pc' = [pc EXCEPT ![c] = "create"]
  /\ \E b \in S : body' = [body EXCEPT ![c] = b]
  /\ UNCHANGED <<products, orders, orderItems, nextId, idx, txOrder, txItems,
                 rowLock, pending, response>>
  /\ UNCHANGED apart

\* app.post('/orders') on a request without a JSON body.  The destructuring
\* of req.body is the first statement of the handler, before the try.  What
\* req.body is then depends on the express the server is built with: the
\* empty object (Express 4), whose missing items fail inside the
\* transaction, or undefined (Express 5), on which the destructuring throws
\* outside the try and the framework's default error handler answers.
PlaceOrderNoBody(c) ==
  /\ pc[c] = "idle"
  /\ \/ /\ body' = [body EXCEPT ![c] = EmptyBody]
        /\ pc' = [pc EXCEPT ![c] = "create"]
        /\ response' = response
     \/ /\ body' = body
        /\ pc' = [pc EXCEPT ![c] = "done"]
        /\ response' = [response EXCEPT ![c] = UncaughtErrorPage]
  /\ UNCHANGED <<products, orders, orderItems, nextId, idx, txOrder, txItems,
                 rowLock, pending>>
  /\ UNCHANGED apart

\* A bug of the insert: the order id is not generated afresh.
OrderCreateSameId(c) ==
  /\ pc[c] = "create"
  /\ "items" \in DOMAIN body[c]
  /\ txOrder' = [txOrder EXCEPT ![c] = OrderRow(body[c], 1)]
  /\ txItems' = [txItems EXCEPT ![c] = ItemRows(body[c].items, 1)]
  /\ nextId' = nextId + 1
  /\ idx' = [idx EXCEPT ![c] = 1]
  /\ pc' = [pc EXCEPT ![c] = "update"]
  /\ UNCHANGED <<products, orders, orderItems, body, rowLock, pending, response>>
  /\ UNCHANGED apart

\* tx.order.create with the nested items; the order gets a generated id.
OrderCreate(c) ==
  /\ pc[c] = "create"
  /\ "items" \in DOMAIN body[c]
  /\ txOrder' = [txOrder EXCEPT ![c] = OrderRow(body[c], nextId)]
  /\ txItems' = [txItems EXCEPT ![c] = ItemRows(body[c].items, nextId)]
  /\ nextId' = nextId + 1
  /\ idx' = [idx EXCEPT ![c] = 1]
  /\ pc' = [pc EXCEPT ![c] = "update"]
  /\ UNCHANGED <<products, orders, orderItems, body, rowLock, pending, response>>
  /\ UNCHANGED apart

\* items.map throws on a body without items, or the store rejects the insert
\* (constraint violation, connection error): the callback throws.
OrderCreateFails(c) ==
  /\ pc[c] = "create"
  /\ nextId' = nextId
  /\ Rollback(c)

CurrentItem(c) == body[c].items[idx[c]]

InLoop(c) == pc[c] = "update" /\ idx[c] <= Len(body[c].items)

\* A bug of the store access: the row is read and written back without
\* waiting for the transaction that holds its lock.
ProductUpdateNoLock(c) ==
  /\ InLoop(c)
  /\ LET item == CurrentItem(c)
         p == item.id
     IN  /\ p \in DOMAIN products
         /\ LET base == IF c \in rowLock[p] THEN pending[p]
                        ELSE [stock |-> products[p].stock, sold |-> products[p].sold]
            IN  pending' = [pending EXCEPT ![p] = Decremented(base, item.quantity)]
         /\ rowLock' = [rowLock EXCEPT ![p] = {c}]
  /\ idx' = [idx EXCEPT ![c] = idx[c] + 1]
  /\ UNCHANGED <<products, orders, orderItems, nextId, pc, body, txOrder, txItems,
                 response>>
  /\ UNCHANGED apart

\* tx.product.update of the loop, on an existing product: the UPDATE waits
\* while another transaction holds the row's lock, then decrements the latest
\* committed version (or the version this transaction wrote) and keeps the
\* lock until the transaction ends.
ProductUpdate(c) ==
  /\ InLoop(c)
  /\ LET item == CurrentItem(c)
         p == item.id
     IN  /\ p \in DOMAIN products
         /\ rowLock[p] \subseteq {c}
         /\ LET base == IF c \in rowLock[p] THEN pending[p]
                        ELSE [stock |-> products[p].stock, sold |-> products[p].sold]
            IN  pending' = [pending EXCEPT ![p] = Decremented(base, item.quantity)]
         /\ rowLock' = [rowLock EXCEPT ![p] = {c}]
  /\ idx' = [idx EXCEPT ![c] = idx[c] + 1]
  /\ UNCHANGED <<products, orders, orderItems, nextId, pc, body, txOrder, txItems,
                 response>>
  /\ UNCHANGED apart

\* A bug of the loop: an update that matches no row is skipped silently.
ProductNotFoundSkipped(c) ==
  /\ InLoop(c)
  /\ CurrentItem(c).id \notin DOMAIN products
  /\ idx' = [idx EXCEPT ![c] = idx[c] + 1]
  /\ UNCHANGED <<products, orders, orderItems, nextId, pc, body, txOrder, txItems,
                 rowLock, pending, response>>
  /\ UNCHANGED apart

\* tx.product.update finds no row for item.id and throws.
ProductNotFound(c) ==
  /\ InLoop(c)
  /\ CurrentItem(c).id \notin DOMAIN products
  /\ nextId' = nextId
  /\ Rollback(c)

\* The calls whose lock the UPDATE of c is waiting for.
WaitsFor(c) ==
  IF InLoop(c) /\ CurrentItem(c).id \in DOMAIN products
  THEN rowLock[CurrentItem(c).id] \ {c}
  ELSE {}

RECURSIVE Reaches(_, _, _)
Reaches(from, to, n) ==
  /\ n > 0
  /\ \E w \in WaitsFor(from) : w = to \/ Reaches(w, to, n - 1)

\* The store's deadlock detector aborts a transaction that waits in a cycle
\* of lock waits; its UPDATE throws.
DeadlockAbort(c) ==
  /\ Reaches(c, c, NumCalls)
  /\ nextId' = nextId
  /\ Rollback(c)

\* A bug of the handler: the checkout empties the buyer's cart itself.
CommitClearsCart(c) ==
  /\ pc[c] = "update"
  /\ idx[c] > Len(body[c].items)
  /\ orders' = orders \cup {txOrder[c]}
  /\ orderItems' = orderItems \cup txItems[c]
  /\ products' = Installed(c)
  /\ rowLock' = Released(c)
  /\ pending' = Dropped(c)
  /\ response' = [response EXCEPT
                    ![c] = [status |-> Created, body |-> CreateResult(txOrder[c], txItems[c])]]
  /\ txOrder' = [txOrder EXCEPT ![c] = NoRow]
  /\ txItems' = [txItems EXCEPT ![c] = {}]
  /\ pc' = [pc EXCEPT ![c] = "done"]
  /\ cart' = {k \in cart : k.userId # body[c].customerId}
  /\ UNCHANGED <<nextId, body, idx>>
  /\ UNCHANGED <<favorites, addresses, users, shops, replies, reqs, nextRow>>

\* The loop is over and the callback returns the order: COMMIT, then
\* res.status(201).json(result).
Commit(c) ==
  /\ pc[c] = "update"
  /\ idx[c] > Len(body[c].items)
  /\ orders' = orders \cup {txOrder[c]}
  /\ orderItems' = orderItems \cup txItems[c]
  /\ products' = Installed(c)
  /\ rowLock' = Released(c)
  /\ pending' = Dropped(c)
  /\ response' = [response EXCEPT
                    ![c] = [status |-> Created, body |-> CreateResult(txOrder[c], txItems[c])]]
  /\ txOrder' = [txOrder EXCEPT ![c] = NoRow]
  /\ txItems' = [txItems EXCEPT ![c] = {}]
  /\ pc' = [pc EXCEPT ![c] = "done"]
  /\ UNCHANGED <<nextId, body, idx>>
  /\ UNCHANGED apart

\* ----------------------------------------------- the single-statement routes

\* Each of these routes awaits one statement of the store outside any
\* transaction, then answers; the request and its response are appended to
\* replies.
CanServe == Len(replies) < MaxOps
Reply(r) == replies' = Append(replies, r)
\* What these routes never touch: the running requests of the other routes.
checkout ==
  <<nextId, pc, body, idx, txOrder, txItems, rowLock, pending, response, reqs, nextRow>>

\* A bug of the update: the whole body is written, not only its status.
StatusSetWithBody(o, st) == [o EXCEPT !.status = st, !.total = 0]

\* A bug of the update: a completed or cancelled order keeps its status.
StatusSetUnlessFinal(o, st) ==
  IF o.status \in {"Concluído", "Cancelado"} THEN o ELSE [o EXCEPT !.status = st]

\* prisma.order.update({where: {id}, data: {status}}) on the order row o.
StatusSet(o, st) == [o EXCEPT !.status = st]

\* A bug of the update: cancelling an order gives its quantities back to the
\* stock of the products.
PatchStatusRestoresStock ==
  /\ CanServe
  /\ \E id \in 1..nextId, st \in Statuses :
       IF \E o \in orders : o.id = id
       THEN LET o == CHOOSE x \in orders : x.id = id
                back(p) == IF \E r \in orderItems : r.orderId = id /\ r.productId = p
                           THEN 1 ELSE 0
            IN  /\ orders' = (orders \ {o}) \cup {StatusSet(o, st)}
                /\ products' =
                     IF st = "Cancelado"
                     THEN [p \in DOMAIN products |->
                             [products[p] EXCEPT !.stock = @ + back(p), !.sold = @ - back(p)]]
                     ELSE products
                /\ Reply([op |-> "patchStatus", id |-> id, asked |-> st, from |-> o.status,
                          status |-> Ok, body |-> StatusSet(o, st)])
       ELSE /\ UNCHANGED <<orders, products>>
            /\ Reply([op |-> "patchStatus", id |-> id, asked |-> st,
                      status |-> ServerError, error |-> StatusError])
  /\ UNCHANGED <<orderItems, cart, favorites, addresses, users, shops>>
  /\ UNCHANGED checkout

\* app.patch('/orders/:id/status'): the update matches a committed order and
\* answers the updated row, or matches none and throws.
PatchStatus ==
  /\ CanServe
  /\ \E id \in 1..nextId, st \in Statuses :
       IF \E o \in orders : o.id = id
       THEN LET o == CHOOSE x \in orders : x.id = id
            IN  /\ orders' = (orders \ {o}) \cup {StatusSet(o, st)}
                /\ Reply([op |-> "patchStatus", id |-> id, asked |-> st, from |-> o.status,
                          status |-> Ok, body |-> StatusSet(o, st)])
       ELSE /\ orders' = orders
            /\ Reply([op |-> "patchStatus", id |-> id, asked |-> st,
                      status |-> ServerError, error |-> StatusError])
  /\ UNCHANGED <<products, orderItems, cart, favorites, addresses, users, shops>>
  /\ UNCHANGED checkout

\* The data of prisma.product.update in PUT /products/:id applied to a row:
\* name, price, stock and the first image (or the placeholder); sold is not
\* part of it.
Edited(row, b) ==
  [row EXCEPT !.name = b.name, !.price = b.price, !.stock = b.stock,
              !.image = IF Len(b.images) > 0 THEN b.images[1] ELSE Placeholder]

\* A bug of the edit: the new name, price and image are copied into the line
\* items that name the product.
PutProductRewritesItems ==
  /\ CanServe
  /\ \E p \in ItemIds, b \in PutRequests :
       IF p \in DOMAIN products
       THEN /\ rowLock[p] = {}
            /\ products' = [products EXCEPT ![p] = Edited(products[p], b)]
            /\ orderItems' =
                 {IF r.productId = p
                  THEN [r EXCEPT !.name = b.name, !.price = b.price,
                                 !.image = Edited(products[p], b).image]
                  ELSE r : r \in orderItems}
            /\ Reply([op |-> "putProduct", id |-> p, status |-> Ok,
                      body |-> Edited(products[p], b)])
       ELSE /\ UNCHANGED <<products, orderItems>>
            /\ Reply([op |-> "putProduct", id |-> p, status |-> ServerError,
                      error |-> ProductUpdateError])
  /\ UNCHANGED <<orders, cart, favorites, addresses, users, shops>>
  /\ UNCHANGED checkout

\* app.put('/products/:id'): the UPDATE waits for the row's lock, writes the
\* row and answers it; on a missing product it throws.
PutProduct ==
  /\ CanServe
  /\ \E p \in ItemIds, b \in PutRequests :
       IF p \in DOMAIN products
       THEN /\ rowLock[p] = {}
            /\ products' = [products EXCEPT ![p] = Edited(products[p], b)]
            /\ Reply([op |-> "putProduct", id |-> p, status |-> Ok,
                      body |-> Edited(products[p], b)])
       ELSE /\ products' = products
            /\ Reply([op |-> "putProduct", id |-> p, status |-> ServerError,
                      error |-> ProductUpdateError])
  /\ UNCHANGED <<orders, orderItems, cart, favorites, addresses, users, shops>>
  /\ UNCHANGED checkout

\* The schema that declares the relation of a line item to its product and
\* of an order to its address is not part of the sources; the referential
\* rule is the documented one: a product or an address is deleted
\* independently of the orders that name it, and the rows that name it stay
\* as they are.
DeleteRestricted(id) == FALSE
OrdersAfterDelete(id) == orders
ItemsAfterDelete(id) == orderItems

\* A bug of the delete: the line items that name the product go with it.
DeleteProductWithItems ==
  /\ CanServe
  /\ \E p \in ItemIds :
       IF p \in DOMAIN products /\ ~DeleteRestricted(p)
       THEN /\ rowLock[p] = {}
            /\ products' = [q \in DOMAIN products \ {p} |-> products[q]]
            /\ orders' = OrdersAfterDelete(p)
            /\ orderItems' = {r \in orderItems : r.productId # p}
            /\ Reply([op |-> "deleteProduct", id |-> p, status |-> NoContent])
       ELSE /\ UNCHANGED <<products, orders, orderItems>>
            /\ Reply([op |-> "deleteProduct", id |-> p, status |-> ServerError,
                      error |-> ProductDeleteError])
  /\ UNCHANGED <<cart, favorites, addresses, users, shops>>
  /\ UNCHANGED checkout

\* app.delete('/products/:id'): the DELETE waits for the row's lock and
\* removes the row (204); on a missing product it throws.
DeleteProduct ==
  /\ CanServe
  /\ \E p \in ItemIds :
       IF p \in DOMAIN products /\ ~DeleteRestricted(p)
       THEN /\ rowLock[p] = {}
            /\ products' = [q \in DOMAIN products \ {p} |-> products[q]]
            /\ orders' = OrdersAfterDelete(p)
            /\ orderItems' = ItemsAfterDelete(p)
            /\ Reply([op |-> "deleteProduct", id |-> p, status |-> NoContent])
       ELSE /\ UNCHANGED <<products, orders, orderItems>>
            /\ Reply([op |-> "deleteProduct", id |-> p, status |-> ServerError,
                      error |-> ProductDeleteError])
  /\ UNCHANGED <<cart, favorites, addresses, users, shops>>
  /\ UNCHANGED checkout

\* app.delete('/addresses/:id'): removes the address row (204), or throws on
\* a missing one.
DeleteAddress ==
  /\ CanServe
  /\ \E a \in AddressIds :
       IF (\E r \in addresses : r.id = a) /\ ~DeleteRestricted(a)
       THEN /\ addresses' = {r \in addresses : r.id # a}
            /\ orders' = OrdersAfterDelete(a)
            /\ orderItems' = ItemsAfterDelete(a)
            /\ Reply([op |-> "deleteAddress", id |-> a, status |-> NoContent])
       ELSE /\ UNCHANGED <<addresses, orders, orderItems>>
            /\ Reply([op |-> "deleteAddress", id |-> a, status |-> ServerError,
                      error |-> AddressDeleteError])
  /\ UNCHANGED <<products, cart, favorites, users, shops>>
  /\ UNCHANGED checkout

\* app.delete('/cart/user/:userId'): deleteMany of the user's cart items.
ClearCart ==
  /\ CanServe
  /\ \E u \in UserIds :
       /\ cart' = {k \in cart : k.userId # u}
       /\ Reply([op |-> "clearCart", id |-> u, status |-> NoContent])
  /\ UNCHANGED <<products, orders, orderItems, favorites, addresses, users, shops>>
  /\ UNCHANGED checkout

\* A bug of the store access: a read sees the row version an open
\* transaction has written.
DirtyRead(p) ==
  IF rowLock[p] # {}
  THEN [products[p] EXCEPT !.stock = pending[p].stock, !.sold = pending[p].sold]
  ELSE products[p]

\* What a statement outside the transaction reads of product p: the
\* committed row.
ReadProduct(p) == products[p]

\* app.get('/products/:id'): findUnique answers the row, or null.
GetProduct ==
  /\ CanServe
  /\ \E p \in ItemIds :
       Reply([op |-> "getProduct", id |-> p, status |-> Ok,
              body |-> IF p \in DOMAIN products THEN ReadProduct(p) ELSE NoRow])
  /\ UNCHANGED <<products, orders, orderItems, cart, favorites, addresses, users, shops>>
  /\ UNCHANGED checkout

\* app.get('/orders'): findMany with include {items: true} answers the
\* committed orders, each with its line items.
GetOrders ==
  /\ CanServe
  /\ Reply([op |-> "getOrders", status |-> Ok,
            body |-> {[order |-> o, items |-> {r \in orderItems : r.orderId = o.id}]
                        : o \in orders}])
  /\ UNCHANGED <<products, orders, orderItems, cart, favorites, addresses, users, shops>>
  /\ UNCHANGED checkout

\* ------------------------------------------------- the two-statement routes

\* These routes await two statements of the store, a read and then a write,
\* outside any transaction: requests in flight interleave between the two.
\* What they never touch: the catalogue, the orders and the checkouts.
orderSide ==
  <<products, orders, orderItems, nextId, pc, body, idx, txOrder, txItems, rowLock,
    pending, response, replies>>

\* What a route without a try answers when a statement throws: the error
\* page of the framework's default handler (Express 5) or nothing at all
\* (Express 4, where the rejected promise of the handler is not caught).
Uncaught == {UncaughtErrorPage, NoResponse}

\* The cart items findFirst({where: {userId, productId}}) can answer.
CartMatches(b) == {k \in cart : k.userId = b.userId /\ k.productId = b.productId}

\* app.post('/cart'), first statement: findFirst answers an item of the pair
\* of the body, or null.
CartFind(r) ==
  /\ reqs[r] = Idle
  /\ \E b \in CartRequests :
       \E x \in IF CartMatches(b) = {} THEN {NoRow} ELSE CartMatches(b) :
         reqs' = [reqs EXCEPT ![r] = [at |-> "cart", body |-> b, existingItem |-> x]]
  /\ UNCHANGED <<cart, favorites, addresses, users, shops, nextRow>>
  /\ UNCHANGED orderSide

\* app.post('/cart') with an item found: update({where: {id}, data: {quantity:
\* existingItem.quantity + quantity}}) writes the sum computed from the row
\* as it was read, and answers the row; on a row that is gone it throws.
CartUpdate(r) ==
  /\ reqs[r].at = "cart"
  /\ reqs[r].existingItem # NoRow
  /\ LET id == reqs[r].existingItem.id
         sum == reqs[r].existingItem.quantity + reqs[r].body.quantity
     IN  IF \E k \in cart : k.id = id
         THEN LET k == CHOOSE x \in cart : x.id = id
                  updated == [k EXCEPT !.quantity = sum]
              IN  /\ cart' = (cart \ {k}) \cup {updated}
                  /\ reqs' = [reqs EXCEPT ![r] = [at |-> "done", route |-> "cart",
                                                  body |-> reqs[r].body,
                                                  res |-> [status |-> Ok, body |-> updated]]]
         ELSE /\ cart' = cart
              /\ \E e \in Uncaught :
                   reqs' = [reqs EXCEPT ![r] = [at |-> "done", route |-> "cart",
                                                body |-> reqs[r].body, res |-> e]]
  /\ UNCHANGED <<favorites, addresses, users, shops, nextRow>>
  /\ UNCHANGED orderSide

\* app.post('/cart') with no item found: create inserts a row under a
\* generated id and answers it with 201.
CartCreate(r) ==
  /\ reqs[r].at = "cart"
  /\ reqs[r].existingItem = NoRow
  /\ LET b == reqs[r].body
         newItem == [id |-> "k" \o ToString(nextRow), userId |-> b.userId,
                     productId |-> b.productId, quantity |-> b.quantity]
     IN  /\ cart' = cart \cup {newItem}
         /\ reqs' = [reqs EXCEPT ![r] = [at |-> "done", route |-> "cart", body |-> b,
                                         res |-> [status |-> Created, body |-> newItem]]]
  /\ nextRow' = nextRow + 1
  /\ UNCHANGED <<favorites, addresses, users, shops>>
  /\ UNCHANGED orderSide

\* The addresses after updateMany({where: {userId}, data: {isPrimary: false}}).
ClearedFor(u) ==
  {IF a.userId = u THEN [a EXCEPT !.isPrimary = FALSE] ELSE a : a \in addresses}
\* The same with userId undefined: the filter is dropped from the where and
\* the update matches every row.
ClearedAll == {[a EXCEPT !.isPrimary = FALSE] : a \in addresses}

\* req.body of POST /addresses: the user and whether the address is primary.
AddrPostRequests(primary) == [userId : DOMAIN users, isPrimary : {primary}]

\* app.post('/addresses') with isPrimary: the first statement clears the
\* primary flag of the user's addresses.
AddrPostClear(r) ==
  /\ reqs[r] = Idle
  /\ \E b \in AddrPostRequests(TRUE) :
       /\ addresses' = ClearedFor(b.userId)
       /\ reqs' = [reqs EXCEPT ![r] = [at |-> "addrPost", body |-> b]]
  /\ UNCHANGED <<cart, favorites, users, shops, nextRow>>
  /\ UNCHANGED orderSide

\* app.post('/addresses'), the create: the only statement of a request
\* without isPrimary, the second of one with it; answers the row with 201.
AddrPostCreate(r) ==
  /\ \E b \in IF reqs[r] = Idle THEN AddrPostRequests(FALSE)
              ELSE IF reqs[r].at = "addrPost" THEN {reqs[r].body} ELSE {} :
       LET newAddress == [id |-> "a" \o ToString(nextRow), userId |-> b.userId,
                          isPrimary |-> b.isPrimary]
       IN  /\ addresses' = addresses \cup {newAddress}
           /\ reqs' = [reqs EXCEPT ![r] = [at |-> "done", route |-> "addrPost", body |-> b,
                                           res |-> [status |-> Created, body |-> newAddress]]]
  /\ nextRow' = nextRow + 1
  /\ UNCHANGED <<cart, favorites, users, shops>>
  /\ UNCHANGED orderSide

\* req.body of PUT /addresses/:id with its id: isPrimary true, with the
\* userId of some user or without userId.
AddrPutPrimary ==
  [id : AddressIds \cup {a.id : a \in addresses}, isPrimary : {TRUE}, userId : DOMAIN users]
    \cup [id : AddressIds \cup {a.id : a \in addresses}, isPrimary : {TRUE}]
\* The same with isPrimary false, or without isPrimary (an edit of the
\* street only).
AddrPutOther ==
  [id : AddressIds \cup {a.id : a \in addresses}, isPrimary : {FALSE}]
    \cup [id : AddressIds \cup {a.id : a \in addresses}]

\* app.put('/addresses/:id') with isPrimary: the first statement clears the
\* primary flag of the addresses of the body's userId.  Without userId in
\* the body the where is {userId: undefined}: the client either drops the
\* filter, and every address is cleared, or rejects the undefined value
\* (strict undefined checks), and the catch answers 500.
AddrPutClear(r) ==
  /\ reqs[r] = Idle
  /\ \E b \in AddrPutPrimary :
       IF "userId" \in DOMAIN b
       THEN /\ addresses' = ClearedFor(b.userId)
            /\ reqs' = [reqs EXCEPT ![r] = [at |-> "addrPut", body |-> b]]
       ELSE \/ /\ addresses' = ClearedAll
               /\ reqs' = [reqs EXCEPT ![r] = [at |-> "addrPut", body |-> b]]
            \/ /\ addresses' = addresses
               /\ reqs' = [reqs EXCEPT ![r] =
                             [at |-> "done", route |-> "addrPut", body |-> b,
                              res |-> [status |-> ServerError,
                                       error |-> AddressUpdateError]]]
  /\ UNCHANGED <<cart, favorites, users, shops, nextRow>>
  /\ UNCHANGED orderSide

\* app.put('/addresses/:id'), the update of the row of the id: it writes
\* isPrimary when the body carries it and answers the row; on a missing id it
\* throws and the catch answers 500.
AddrPutUpdate(r) ==
  /\ \E b \in IF reqs[r] = Idle THEN AddrPutOther
              ELSE IF reqs[r].at = "addrPut" THEN {reqs[r].body} ELSE {} :
       IF \E a \in addresses : a.id = b.id
       THEN LET a == CHOOSE x \in addresses : x.id = b.id
                updated == IF "isPrimary" \in DOMAIN b
                           THEN [a EXCEPT !.isPrimary = b.isPrimary] ELSE a
            IN  /\ addresses' = (addresses \ {a}) \cup {updated}
                /\ reqs' = [reqs EXCEPT ![r] = [at |-> "done", route |-> "addrPut", body |-> b,
                                                res |-> [status |-> Ok, body |-> updated]]]
       ELSE /\ addresses' = addresses
            /\ reqs' = [reqs EXCEPT ![r] =
                          [at |-> "done", route |-> "addrPut", body |-> b,
                           res |-> [status |-> ServerError, error |-> AddressUpdateError]]]
  /\ UNCHANGED <<cart, favorites, users, shops, nextRow>>
  /\ UNCHANGED orderSide

\* app.post('/auth/register') without shopData: a body without userData.name
\* is answered 400; otherwise one create inserts the user with its first
\* address, marked primary, and answers 201.
Register ==
  /\ CanServe
  /\ \E named \in BOOLEAN :
       IF named
       THEN LET u == "u" \o ToString(nextRow)
            IN  /\ users' = [x \in DOMAIN users \cup {u} |->
                               IF x = u THEN [name |-> "Bia"] ELSE users[x]]
                /\ addresses' = addresses \cup
                     {[id |-> "a" \o ToString(nextRow), userId |-> u, isPrimary |-> TRUE]}
                /\ nextRow' = nextRow + 1
                /\ Reply([op |-> "register", id |-> u, status |-> Created])
       ELSE /\ UNCHANGED <<users, addresses, nextRow>>
            /\ Reply([op |-> "register", status |-> BadRequest, error |-> RegisterError])
  /\ UNCHANGED <<products, orders, orderItems, cart, favorites, shops, reqs>>
  /\ UNCHANGED <<nextId, pc, body, idx, txOrder, txItems, rowLock, pending, response>>

\* req.body of POST /favorites/toggle: a registered user and a product.
FavRequests == [userId : DOMAIN users, productId : ProductIds]

\* The favorites of the pair of the body.  The route looks the pair up by
\* the compound unique key userId_productId: the store holds at most one.
FavMatches(b) == {f \in favorites : f.userId = b.userId /\ f.productId = b.productId}

\* What the catch of the favorites route answers.
FavFailed(r) ==
  [at |-> "done", route |-> "fav", body |-> reqs[r].body,
   res |-> [status |-> ServerError, error |-> FavoriteError]]

\* app.post('/favorites/toggle'), first statement: findUnique answers the
\* favorite of the pair, or null.
FavFind(r) ==
  /\ reqs[r] = Idle
  /\ \E b \in FavRequests :
       \E x \in IF FavMatches(b) = {} THEN {NoRow} ELSE FavMatches(b) :
         reqs' = [reqs EXCEPT ![r] = [at |-> "fav", body |-> b, existing |-> x]]
  /\ UNCHANGED <<cart, favorites, addresses, users, shops, nextRow>>
  /\ UNCHANGED orderSide

\* app.post('/favorites/toggle') with a favorite found: delete({where: {id}})
\* removes it and the route answers {favorited: false}; on a row that is
\* gone the delete throws and the catch answers 500.
FavDelete(r) ==
  /\ reqs[r].at = "fav"
  /\ reqs[r].existing # NoRow
  /\ IF reqs[r].existing \in favorites
     THEN /\ favorites' = favorites \ {reqs[r].existing}
          /\ reqs' = [reqs EXCEPT ![r] = [at |-> "done", route |-> "fav",
                                          body |-> reqs[r].body,
                                          res |-> [status |-> Ok, favorited |-> FALSE]]]
     ELSE /\ favorites' = favorites
          /\ reqs' = [reqs EXCEPT ![r] = FavFailed(r)]
  /\ UNCHANGED <<cart, addresses, users, shops, nextRow>>
  /\ UNCHANGED orderSide

\* A bug of the store: no unique key on the pair, every create inserts.
FavCreateNoUnique(r) ==
  /\ reqs[r].at = "fav"
  /\ reqs[r].existing = NoRow
  /\ favorites' = favorites \cup
       {[id |-> "f" \o ToString(nextRow), userId |-> reqs[r].body.userId,
         productId |-> reqs[r].body.productId]}
  /\ nextRow' = nextRow + 1
  /\ reqs' = [reqs EXCEPT ![r] = [at |-> "done", route |-> "fav", body |-> reqs[r].body,
                                  res |-> [status |-> Ok, favorited |-> TRUE]]]
  /\ UNCHANGED <<cart, addresses, users, shops>>
  /\ UNCHANGED orderSide

\* app.post('/favorites/toggle') with no favorite found: create inserts the
\* pair under a generated id and the route answers {favorited: true}; when
\* the pair has been inserted meanwhile the unique key rejects the insert,
\* the create throws and the catch answers 500.
FavCreate(r) ==
  /\ reqs[r].at = "fav"
  /\ reqs[r].existing = NoRow
  /\ IF FavMatches(reqs[r].body) = {}
     THEN /\ favorites' = favorites \cup
               {[id |-> "f" \o ToString(nextRow), userId |-> reqs[r].body.userId,
                 productId |-> reqs[r].body.productId]}
          /\ nextRow' = nextRow + 1
          /\ reqs' = [reqs EXCEPT ![r] = [at |-> "done", route |-> "fav",
                                          body |-> reqs[r].body,
                                          res |-> [status |-> Ok, favorited |-> TRUE]]]
     ELSE /\ UNCHANGED <<favorites, nextRow>>
          /\ reqs' = [reqs EXCEPT ![r] = FavFailed(r)]
  /\ UNCHANGED <<cart, addresses, users, shops>>
  /\ UNCHANGED orderSide

Next ==
  \E c \in Calls :
    \/ PlaceOrder(c, Requests)
    \/ PlaceOrderNoBody(c)
    \/ OrderCreate(c)
    \/ OrderCreateFails(c)
    \/ ProductUpdate(c)
    \/ ProductNotFound(c)
    \/ DeadlockAbort(c)
    \/ Commit(c)

Spec == Init /\ [][Next]_vars

\* One request alone, over every input a client can send.
NextSingle ==
  \/ PlaceOrder(1, AnyRequests)
  \/ OrderCreate(1)
  \/ OrderCreateFails(1)
  \/ ProductUpdate(1)
  \/ ProductNotFound(1)
  \/ Commit(1)

SpecSingle == Init /\ [][NextSingle]_vars

\* One checkout next to the other routes of the server.
NextApi ==
  \/ PlaceOrder(1, ApiRequests)
  \/ OrderCreate(1)
  \/ ProductUpdate(1)
  \/ ProductNotFound(1)
  \/ Commit(1)
  \/ PatchStatus
  \/ PutProduct
  \/ DeleteProduct
  \/ DeleteAddress
  \/ ClearCart
  \/ GetProduct
  \/ GetOrders

SpecApi == Init /\ [][NextApi]_vars

\* The requests to the cart, in any interleaving of their statements.
NextCart ==
  \/ \E r \in Calls : CartFind(r) \/ CartUpdate(r) \/ CartCreate(r)
  \/ ClearCart

SpecCart == Init /\ [][NextCart]_vars

\* Registrations and the requests to the addresses, in any interleaving of
\* their statements.
NextAddr ==
  \/ \E r \in Calls :
       AddrPostClear(r) \/ AddrPostCreate(r) \/ AddrPutClear(r) \/ AddrPutUpdate(r)
  \/ Register

SpecAddr == Init /\ [][NextAddr]_vars

\* Registrations and the toggles of favorites, in any interleaving of their
\* statements.
NextFav ==
  \/ \E r \in Calls : FavFind(r) \/ FavDelete(r) \/ FavCreate(r)
  \/ Register

SpecFav == Init /\ [][NextFav]_vars

\* ------------------------------------------------------ vocabulary of the properties

RECURSIVE QtyFor(_, _)
\* The quantity a line-item list asks of product p, summed over its items.
QtyFor(items, p) ==
  IF items = <<>> THEN 0
  ELSE (IF Head(items).id = p THEN Head(items).quantity ELSE 0) + QtyFor(Tail(items), p)

HasItems(c) == "items" \in DOMAIN body[c]
Succeeded(c) == pc[c] = "done" /\ response[c].status = Created
Failed(c) == pc[c] = "done" /\ response[c].status = ServerError
Finishes(c) == pc[c] # "done" /\ pc'[c] = "done"
Steps(c) == pc'[c] # pc[c] \/ idx'[c] # idx[c]
StoreUnchanged == orders' = orders /\ orderItems' = orderItems /\ products' = products
RowsOf(rows, id) == {r \in rows : r.orderId = id}
RefersToMissing(c) ==
  HasItems(c) /\ \E k \in 1..Len(body[c].items) : body[c].items[k].id \notin DOMAIN products

\* The step ends call c with all of its effects persisted at once: the order
\* under a new id, one line item per input item, and the stock and sold of
\* every product moved by the quantity the call asks of it.
PersistsWhole(c) ==
  /\ response'[c].status = Created
  /\ HasItems(c)
  /\ LET id == response'[c].body.id
     IN  /\ id \notin {o.id : o \in orders}
         /\ orders \subseteq orders'
         /\ {o.id : o \in orders'} = {o.id : o \in orders} \cup {id}
         /\ orderItems \subseteq orderItems'
         /\ orderItems' \ orderItems = RowsOf(orderItems', id)
         /\ Cardinality(RowsOf(orderItems', id)) = Len(body[c].items)
  /\ \A p \in DOMAIN products :
       /\ products'[p].stock = products[p].stock - QtyFor(body[c].items, p)
       /\ products'[p].sold = products[p].sold + QtyFor(body[c].items, p)

\* C1: PlaceOrder is all-or-nothing.  Every step of the system either leaves
\* the orders, the line items and every product's stock and sold as they are,
\* or is the end of one call that persists its order, all of its line items
\* and the stock/sold update of every product it references together; a call
\* that ends in failure leaves all of them exactly as they were.
C1_AllOrNothing ==
  [][ /\ StoreUnchanged \/ \E c \in Calls : Finishes(c) /\ PersistsWhole(c)
      /\ \A c \in Calls :
           Finishes(c) =>
             \/ response'[c].status = ServerError /\ StoreUnchanged
             \/ PersistsWhole(c) ]_vars

\* A call failed after its transaction had inserted the order and updated the
\* stock of a product, and the store holds nothing of it.
C1_Witness ==
  \E c \in Calls :
    /\ Failed(c)
    /\ HasItems(c)
    /\ idx[c] = 2
    /\ orders = {}
    /\ orderItems = {}
    /\ products = Catalogue

\* C2: after a successful PlaceOrder, each product's stock is its stock before
\* the call minus the quantity the call asks of it (summed over the line items
\* that reference it) and its sold is the sold before plus that quantity;
\* products the call does not reference keep both.
C2_StockAndSoldMoveByQuantity ==
  \A c \in Calls :
    Succeeded(c) =>
      \A p \in DOMAIN products :
        /\ products[p].stock = Catalogue[p].stock - QtyFor(body[c].items, p)
        /\ products[p].sold = Catalogue[p].sold + QtyFor(body[c].items, p)

\* A call succeeded whose two line items reference the same product, and the
\* other product is untouched.
C2_Witness ==
  /\ Succeeded(1)
  /\ Len(body[1].items) = 2
  /\ body[1].items[1].id = "p1" /\ body[1].items[2].id = "p1"
  /\ body[1].items[1].quantity = MaxQty
  /\ body[1].items[2].quantity = MaxQty
  /\ products["p1"].stock = InitStock - 2 * MaxQty
  /\ products["p1"].sold = 2 * MaxQty
  /\ products["p2"] = Catalogue["p2"]

\* C3: a PlaceOrder call with a line item whose product does not exist fails,
\* and no step of it changes the persisted orders, line items or products,
\* also when valid products precede the missing one in the request.
C3_MissingProductRollsBack ==
  [][ \A c \in Calls :
        (RefersToMissing(c) /\ Steps(c)) =>
          /\ StoreUnchanged
          /\ pc'[c] = "done" => response'[c].status = ServerError ]_vars

\* A call failed on a missing product listed after a valid one, whose stock
\* its transaction had already decremented.
C3_Witness ==
  \E c \in Calls :
    /\ Failed(c)
    /\ HasItems(c)
    /\ Len(body[c].items) = 2
    /\ body[c].items[1].id \in DOMAIN products
    /\ body[c].items[2].id = MissingId
    /\ idx[c] = 2
    /\ products = Catalogue

\* C4: the stock of a product never goes negative as an effect of PlaceOrder.
C4_StockNeverNegative ==
  \A p \in DOMAIN products : products[p].stock >= 0

RECURSIVE SumOver(_, _)
\* The quantity the calls of set S ask of product p.
SumOver(S, p) ==
  IF S = {} THEN 0
  ELSE LET c == CHOOSE x \in S : TRUE
       IN  QtyFor(body[c].items, p) + SumOver(S \ {c}, p)

Committed == {c \in Calls : Succeeded(c)}

\* C5: no lost update.  Whatever the interleaving of the calls' steps, each
\* product's stock is its initial stock minus the sum of the quantities of the
\* calls that committed, and its sold is its initial sold plus that sum.
C5_NoLostUpdate ==
  \A p \in DOMAIN products :
    /\ products[p].stock = Catalogue[p].stock - SumOver(Committed, p)
    /\ products[p].sold = Catalogue[p].sold + SumOver(Committed, p)

\* Every call slot committed an order of quantity 1 of the same product, and
\* the stock is the initial stock minus the number of calls.
C5_Witness ==
  /\ \A c \in Calls :
       /\ Succeeded(c)
       /\ Len(body[c].items) = 1
       /\ body[c].items[1].id = "p1"
       /\ body[c].items[1].quantity = 1
  /\ products["p1"].stock = InitStock - NumCalls
  /\ products["p1"].sold = NumCalls

EmptyOrMissingItems(c) == ~HasItems(c) \/ body[c].items = <<>>

\* C6: a PlaceOrder call whose line-item list is empty or missing is rejected:
\* it ends with an error response and persists no order.
C6_EmptyItemsRejected ==
  (pc[1] = "done" /\ EmptyOrMissingItems(1)) =>
    /\ response[1].status = ServerError
    /\ orders = {}
    /\ orderItems = {}
    /\ products = Catalogue

\* C7: every persisted order owns at least one line item.
C7_OrderHasLineItem ==
  \A o \in orders : RowsOf(orderItems, o.id) # {}

\* C8: the 201 response carries the persisted order with its generated id and
\* its nested persisted line items.
C8_ResponseHasIdAndItems ==
  \A c \in Calls :
    Succeeded(c) =>
      /\ "id" \in DOMAIN response[c].body
      /\ "items" \in DOMAIN response[c].body
      /\ response[c].body.items = RowsOf(orderItems, response[c].body.id)

\* C9: after a successful PlaceOrder the new order has as many persisted line
\* items as the request has input items, and the k-th persisted item carries
\* the productId, name, price, quantity and image the caller sent in the k-th
\* input item, whatever the product's record holds.
C9_ItemsAreCallerSnapshot ==
  \A c \in Calls :
    Succeeded(c) =>
      LET rows == RowsOf(orderItems, response[c].body.id)
          items == body[c].items
      IN  /\ Cardinality(rows) = Len(items)
          /\ \A k \in 1..Len(items) :
               \E r \in rows :
                 /\ r.seq = k
                 /\ r.productId = items[k].id
                 /\ r.name = items[k].name
                 /\ r.price = items[k].price
                 /\ r.quantity = items[k].quantity
                 /\ r.image = items[k].image

\* A call succeeded for a product whose record has another name, price and
\* image than the item sent, and the persisted item carries what was sent.
C9_Witness ==
  /\ Succeeded(1)
  /\ Len(body[1].items) = 2
  /\ body[1].items[1].id = "p1"
  /\ body[1].items[1].name # products["p1"].name
  /\ body[1].items[1].price # products["p1"].price
  /\ body[1].items[1].image # products["p1"].image
  /\ \E r \in orderItems :
       /\ r.orderId = response[1].body.id
       /\ r.seq = 1
       /\ r.name = body[1].items[1].name
       /\ r.price = body[1].items[1].price

\* C10: PlaceOrder is not idempotent.  When a call commits whose payload equals
\* the payload of a call that committed before, it still creates a further
\* order under another id, next to the first one, and moves the stock and sold
\* of each product by the payload's quantity once more.
C10_NotIdempotent ==
  [][ \A c1, c2 \in Calls :
        (/\ c1 # c2
         /\ Succeeded(c1)
         /\ Finishes(c2)
         /\ response'[c2].status = Created
         /\ body[c2] = body[c1]) =>
          /\ response'[c2].body.id # response[c1].body.id
          /\ Cardinality(orders') = Cardinality(orders) + 1
          /\ \E o \in orders' : o.id = response[c1].body.id
          /\ \E o \in orders' : o.id = response'[c2].body.id
          /\ \A p \in DOMAIN products :
               /\ products'[p].stock = products[p].stock - QtyFor(body[c2].items, p)
               /\ products'[p].sold = products[p].sold + QtyFor(body[c2].items, p) ]_vars

\* Two calls with the same payload both succeeded: two orders with distinct
\* ids are persisted and the product's stock went down twice.
C10_Witness ==
  \E c1, c2 \in Calls :
    /\ c1 # c2
    /\ Succeeded(c1) /\ Succeeded(c2)
    /\ body[c1] = body[c2]
    /\ Len(body[c1].items) = 1
    /\ body[c1].items[1].id = "p1"
    /\ response[c1].body.id # response[c2].body.id
    /\ Cardinality(orders) = 2
    /\ products["p1"].stock = InitStock - 2 * body[c1].items[1].quantity
    /\ products["p1"].sold = 2 * body[c1].items[1].quantity
\* C11: every call in which an exception occurs ends with exactly one
\* response, of status 500 with the body {error: message}: a call that
\* finishes either answers 201 with its transaction committed, or answers
\* 500 with the error object and leaves the store as it was, and the
\* response of a finished call never changes.  The handler breaks it: on a
\* request without a body the exception is thrown before the try and the
\* answer is not the error object.
C11_ExceptionAnswersErrorObject ==
  [][\A c \in Calls :
       /\ Finishes(c) =>
            \/ response'[c].status = Created /\ PersistsWhole(c)
            \/ /\ response'[c] = [status |-> ServerError, error |-> CheckoutError]
               /\ StoreUnchanged
       /\ pc[c] = "done" => response'[c] = response[c]]_vars

\* C13: every order PlaceOrder creates starts with the status "A Enviar",
\* whatever the request body contains: an order that a step adds to the
\* store carries the initial status.
C13_CreatedWithInitialStatus ==
  [][\A o \in orders' :
       o.id \notin {x.id : x \in orders} => o.status = InitialStatus]_vars

\* A call whose body asked for the status "Cancelado" has committed, and its
\* order is stored with the initial status.
C13_Witness ==
  \E c \in Calls :
    /\ Succeeded(c)
    /\ "status" \in DOMAIN body[c]
    /\ body[c].status # InitialStatus
    /\ \E o \in orders : o.id = response[c].body.id /\ o.status = InitialStatus

\* C15: the sold counter of a product never decreases: no step takes the
\* sold of a product that stays in the catalogue below its value before the
\* step.  The handler breaks it: a line item of negative quantity is
\* "incremented" into sold.
C15_SoldNeverDecreases ==
  [][\A p \in DOMAIN products \cap DOMAIN products' :
       products'[p].sold >= products[p].sold]_vars

\* C16: every persisted line item has a quantity above zero.  The handler
\* breaks it: the quantity of the body is stored as it comes.
C16_QuantityPositive ==
  \A r \in orderItems : r.quantity > 0

\* The response the step has appended to replies, if it appended one.
Served == Len(replies') = Len(replies) + 1
LastReply == replies'[Len(replies')]
\* A product edit has rewritten the stock of p.
EditedBefore(p) ==
  \E i \in 1..Len(replies) :
    replies[i].op = "putProduct" /\ replies[i].id = p /\ replies[i].status = Ok

\* C12: no request concurrent with a PlaceOrder call observes partial state
\* of it.  A read of a product answers the sold counter (and, unless the
\* product was edited, the stock) that the committed calls account for,
\* never the update of an open transaction; a read of the orders answers
\* only orders of committed calls, each with every line item of its request,
\* while the products hold the sold counters of exactly these orders.
C12_ReadersSeeWholeCalls ==
  [][Served =>
       /\ (LastReply.op = "getProduct" /\ LastReply.id \in DOMAIN products) =>
            /\ LastReply.body.sold = SumOver(Committed, LastReply.id)
            /\ ~EditedBefore(LastReply.id) =>
                 LastReply.body.stock = InitStock - SumOver(Committed, LastReply.id)
       /\ LastReply.op = "getOrders" =>
            /\ \A e \in LastReply.body :
                 \E c \in Committed :
                   /\ response[c].body.id = e.order.id
                   /\ Cardinality(e.items) = Len(body[c].items)
            /\ \A c \in Committed : \E e \in LastReply.body : e.order.id = response[c].body.id
            /\ \A q \in DOMAIN products : products[q].sold = SumOver(Committed, q)]_vars

\* A product was read while the transaction of call 1 held its row with an
\* uncommitted update: the read answered the committed counters.
C12_Witness ==
  /\ Len(replies) > 0
  /\ LET r == replies[Len(replies)]
     IN  /\ r.op = "getProduct"
         /\ r.id \in DOMAIN products
         /\ rowLock[r.id] = {1}
         /\ pending[r.id].sold > r.body.sold
         /\ r.body.sold = 0

\* C14: the status update is unconditional.  A PATCH /orders/:id/status on
\* an existing order succeeds whatever the order's status and whatever the
\* status asked for: it answers 200 with the updated order, and the stored
\* order has the status asked for.
C14_AnyStatusToAnyStatus ==
  [][(Served /\ LastReply.op = "patchStatus"
        /\ \E o \in orders : o.id = LastReply.id) =>
       /\ LastReply.status = Ok
       /\ LastReply.body.status = LastReply.asked
       /\ \E o \in orders' : o.id = LastReply.id /\ o.status = LastReply.asked]_vars

\* A completed order was moved to another status.
C14_Witness ==
  /\ Len(replies) > 0
  /\ LET r == replies[Len(replies)]
     IN  /\ r.op = "patchStatus"
         /\ r.status = Ok
         /\ r.from = "Concluído"
         /\ r.asked = "A Pagar"
         /\ \E o \in orders : o.id = r.id /\ o.status = "A Pagar"

\* C17: line-item snapshots are immutable under catalogue edits.  A
\* PUT /products/:id, whatever it changes of the product, leaves every
\* persisted line item as it was: the same rows with the same name, price
\* and image.
C17_EditKeepsSnapshots ==
  [][(Served /\ LastReply.op = "putProduct") => orderItems' = orderItems]_vars

\* A product that was sold has been edited: its row carries the new name,
\* price and image, the line item that names it the ones of the checkout.
C17_Witness ==
  /\ Len(replies) > 0
  /\ LET r == replies[Len(replies)]
     IN  /\ r.op = "putProduct"
         /\ r.status = Ok
         /\ r.body.sold > 0
         /\ products[r.id].name = "D"
         /\ products[r.id].price = 7
         /\ products[r.id].image = "new"
         /\ \E i \in orderItems :
              i.productId = r.id /\ i.name = "B" /\ i.price = 10 /\ i.image = "u"

C20_NoOtherSideEffect ==
  [][(\E c \in Calls : Steps(c)) =>
       /\ UNCHANGED <<cart, favorites, addresses, users, shops>>
       /\ orders \subseteq orders'
       /\ orderItems \subseteq orderItems'
       /\ \A c \in Calls : ~Finishes(c) => txOrder[c] \notin orders'
       /\ Cardinality(orders') <= Cardinality(orders) + 1
       /\ DOMAIN products' = DOMAIN products
       /\ \A p \in DOMAIN products :
            /\ products'[p].name = products[p].name
            /\ products'[p].price = products[p].price
            /\ products'[p].image = products[p].image]_vars

\* Two checkouts of the buyer have committed: both orders are stored, and
\* the buyer's cart item, favorite and address are those of the start.
C20_Witness ==
  /\ \A c \in 1..2 : Succeeded(c) /\ body[c].customerId = "u1"
  /\ Cardinality(orders) >= 2
  /\ \E k \in cart : k.userId = "u1" /\ k.productId = "p1"
  /\ \E f \in favorites : f.userId = "u1"
  /\ \E a \in addresses : a.id = "a1"
  /\ products["p1"].sold > 0
  /\ products["p1"].name = Catalogue["p1"].name

\* The rows of S other than the one of the given id.
Others(S, id) == {x \in S : x.id # id}

\* C25: the status update changes the status of the addressed order and
\* nothing else.  A PATCH /orders/:id/status leaves every product (stock and
\* sold included, also when the order is cancelled), every line item and
\* every other order as they were, and keeps the other fields of the order;
\* on an id that names no order it answers 500 and changes nothing.
C25_StatusUpdateFrame ==
  [][(Served /\ LastReply.op = "patchStatus") =>
       /\ products' = products
       /\ orderItems' = orderItems
       /\ Others(orders', LastReply.id) = Others(orders, LastReply.id)
       /\ \A o \in orders : \E n \in orders' : n = [o EXCEPT !.status = n.status]
       /\ (~\E o \in orders : o.id = LastReply.id) =>
            /\ LastReply.status = ServerError
            /\ LastReply.error = StatusError
            /\ orders' = orders]_vars

\* An order of one unit of a product was cancelled: the product's stock is
\* still down by that unit and its sold up by it.
C25_Witness ==
  /\ Len(replies) > 0
  /\ LET r == replies[Len(replies)]
     IN  /\ r.op = "patchStatus"
         /\ r.status = Ok
         /\ r.asked = "Cancelado"
         /\ \E o \in orders : o.id = r.id /\ o.status = "Cancelado"
         /\ \E i \in orderItems :
              /\ i.orderId = r.id
              /\ i.productId \in DOMAIN products
              /\ products[i.productId].stock = InitStock - i.quantity
              /\ products[i.productId].sold = i.quantity

\* A status update named an order that does not exist: it was answered 500.
C25_WitnessMissing ==
  /\ Len(replies) > 0
  /\ replies[Len(replies)].op = "patchStatus"
  /\ replies[Len(replies)].status = ServerError

\* C21: the cart holds at most one item per buyer and product, whatever the
\* interleaving of the POST /cart requests.  The handler breaks it: two
\* requests for a pair without an item both read "no item" and both insert.
C21_OneCartItemPerPair ==
  \A a \in cart, b \in cart :
    (a.userId = b.userId /\ a.productId = b.productId) => a = b

\* The requests that added to the cart item of the given id, and the sum of
\* their quantities.
AddedTo(id) ==
  {r \in Calls : reqs[r].at = "done" /\ reqs[r].route = "cart"
                  /\ reqs[r].res.status = Ok /\ reqs[r].res.body.id = id}
RECURSIVE SumAdded(_)
SumAdded(S) ==
  IF S = {} THEN 0
  ELSE LET r == CHOOSE x \in S : TRUE
       IN  reqs[r].body.quantity + SumAdded(S \ {r})

\* C22: adding to a cart item loses no update: once the requests for the
\* item the cart starts with (k1, of quantity 1) have all completed, and
\* the cart was not emptied, the item's quantity is the one it had plus the
\* sum of the quantities of these requests.  The handler
\* breaks it: two requests that read the item before either writes it both
\* write their own sum.
C22_CartQuantityAccumulates ==
  (replies = <<>> /\ \A r \in Calls : reqs[r].at \in {"idle", "done"}) =>
    \A k \in cart :
      k.id = "k1" => k.quantity = 1 + SumAdded(AddedTo(k.id))

\* The primary addresses of user u in a set of address rows.
PrimaryOf(S, u) == {a \in S : a.userId = u /\ a.isPrimary}
\* The step is a statement of request r, which marks an address primary.
MarksPrimary(r) ==
  /\ reqs'[r] # reqs[r]
  /\ reqs'[r].at \in {"addrPost", "addrPut", "done"}
  /\ reqs'[r].at = "done" => reqs'[r].route \in {"addrPost", "addrPut"}
  /\ "isPrimary" \in DOMAIN reqs'[r].body
  /\ reqs'[r].body.isPrimary
\* The users for whom the request of r marks an address primary: the user
\* the body names and, for a PUT, the owner of the address.
MarkedFor(r) ==
  (IF "userId" \in DOMAIN reqs'[r].body THEN {reqs'[r].body.userId} ELSE {})
    \cup (IF "id" \in DOMAIN reqs'[r].body
          THEN {a.userId : a \in {x \in addresses : x.id = reqs'[r].body.id}}
          ELSE {})

\* C23: each user has at most one primary address, and a request that
\* marks an address primary for one user leaves the primary flag of every
\* other user's addresses alone.  The handlers break both: the flag of the
\* others is cleared in one statement and the new flag set in the next, and
\* the PUT clears by the userId of the body, not by the address's owner.
C23_OnePrimaryPerUser ==
  [][/\ \A u \in DOMAIN users' : Cardinality(PrimaryOf(addresses', u)) <= 1
     /\ \A r \in Calls :
          MarksPrimary(r) =>
            \A a \in addresses :
              (a.isPrimary /\ a.userId \notin MarkedFor(r)) => a \in addresses']_vars

\* The (user, product) pairs of a set of favorites, and the favorites of a
\* pair.
PairsOf(S) == {<<f.userId, f.productId>> : f \in S}
OfPair(S, b) == {f \in S : f.userId = b.userId /\ f.productId = b.productId}
\* The toggles that were answered {favorited: ...}.
Toggled == {r \in Calls : reqs[r].at = "done" /\ reqs[r].route = "fav"
                           /\ reqs[r].res.status = Ok}
\* Two toggles of one pair were answered and nothing else ran.
TwoToggles ==
  /\ Cardinality(Toggled) = 2
  /\ \A r \in Calls \ Toggled : reqs[r] = Idle
  /\ \A r \in Toggled, q \in Toggled : reqs[r].body = reqs[q].body

\* C24: the toggle is an involution whose response matches the state.  The
\* step that answers {favorited: true} adds the pair, which was absent, and
\* leaves exactly one favorite of it; the step that answers {favorited:
\* false} removes the pair and leaves none; after two answered toggles of a
\* pair the pairs of the favorites are those of the start; and no state
\* holds two favorites of one pair, whatever the interleaving.
C24_ToggleInvolution ==
  [][/\ \A r \in Calls :
          (reqs[r].at = "fav" /\ reqs'[r].at = "done" /\ reqs'[r].res.status = Ok) =>
            LET b == reqs[r].body
                pair == <<b.userId, b.productId>>
            IN  IF reqs'[r].res.favorited
                THEN /\ Cardinality(OfPair(favorites', b)) = 1
                     /\ pair \notin PairsOf(favorites)
                     /\ PairsOf(favorites') = PairsOf(favorites) \cup {pair}
                ELSE /\ OfPair(favorites', b) = {}
                     /\ pair \in PairsOf(favorites)
                     /\ PairsOf(favorites') = PairsOf(favorites) \ {pair}
     /\ TwoToggles' => PairsOf(favorites') = {<<"u1", "p1">>}
     /\ \A f \in favorites', g \in favorites' :
          (f.userId = g.userId /\ f.productId = g.productId) => f = g]_vars

\* The favorite of the start was toggled off and on again: the pair is a
\* favorite as before, under a new row.
C24_Witness ==
  /\ TwoToggles
  /\ \E r \in Toggled, q \in Toggled :
       /\ ~reqs[r].res.favorited
       /\ reqs[q].res.favorited
       /\ reqs[r].body.productId = "p1"
  /\ PairsOf(favorites) = {<<"u1", "p1">>}
  /\ \A f \in favorites : f.id # "f1"

\* Two toggles of a pair without a favorite ran at once: one was answered
\* {favorited: true}, the other 500, and the pair has one favorite.
C24_WitnessConcurrent ==
  \E r \in Calls, q \in Calls :
    /\ reqs[r].at = "done" /\ reqs[q].at = "done"
    /\ reqs[r].route = "fav" /\ reqs[q].route = "fav"
    /\ reqs[r].body = reqs[q].body
    /\ reqs[r].res.status = Ok /\ reqs[r].res.favorited
    /\ reqs[q].res.status = ServerError
    /\ Cardinality(OfPair(favorites, reqs[r].body)) = 1

====
